---- MODULE Spec2Model ----
(***************************************************************************)
(* CareerNest job board (src/main.py): the four collections, the request   *)
(* handlers run one at a time (Spec) and the same handlers interleaved at  *)
(* the granularity of single store calls (SpecConc).                       *)
(***************************************************************************)
EXTENDS Integers, Sequences, FiniteSets, TLC

(***************************************************************************)
(* Bounds of the model.                                                    *)
(***************************************************************************)
\* the number of requests that write to the store in one run of Spec
MaxWrites == 4
\* the number of requests in flight at once, and the number of requests
\* started in one run, of SpecConc
NumProcs == 2
MaxRequests == 3
\* the page numbers and page sizes list_jobs is asked for
MaxPage == 3
MaxPageSize == 2
\* the number of jobs created in one run of SpecList
MaxNewJobs == 1

\* a job id no job ever has (uuid4 never yields it)
NoId == 0

(***************************************************************************)
(* Optional[T]: None is the empty set, a value v is {v}.                   *)
(***************************************************************************)
None == {}
Some(v) == {v}
IsNone(o) == o = {}
The(o) == CHOOSE v \in o : TRUE

(***************************************************************************)
(* Inputs of the requests.                                                 *)
(***************************************************************************)
Emails == {"a@x.com", "a@X.com"}
Tokens == {None, Some(""), Some("tok")}
NewTitles == {"Engineer"}
NewCompanyNames == {"Acme"}
Statuses == {"Pending", "Reviewing", "Shortlisted", "Rejected", "Accepted"}

VARIABLES
    companies,      \* col_companies: id -> document
    jobs,           \* col_jobs: id -> document
    applications,   \* col_applications: id -> document
    bookmarks,      \* col_bookmarks: documents in stored order
    jobSeq,         \* number of job uuids issued so far
    resp,           \* the request being answered and its response, or NoResponse
    writes,         \* number of requests that have written to the store
    proc,           \* SpecConc: each request in flight, its position and locals
    started,        \* SpecConc: number of requests started
    tally           \* SpecConc: per job, the requests that returned or failed

vars == <<companies, jobs, applications, bookmarks, jobSeq, resp, writes,
          proc, started, tally>>
seqVars == <<resp, writes>>
concVars == <<proc, started, tally>>
Procs == 1 .. NumProcs

(***************************************************************************)
(* The documents _seed() writes into a fresh database.  uuid4 ids are      *)
(* modelled as the naturals in order of issue.                             *)
(***************************************************************************)
SeedCompanies ==
    (1 :> [name |-> "TechNova Solutions", total_jobs_posted |-> 2]) @@
    (2 :> [name |-> "FinEdge Capital", total_jobs_posted |-> 1]) @@
    (3 :> [name |-> "DesignPulse Agency", total_jobs_posted |-> 1])

NewJobDoc(title, company_id, category, job_type, salary_min, salary_max) ==
    [title |-> title, company_id |-> company_id, category |-> category,
     job_type |-> job_type, salary_min |-> salary_min, salary_max |-> salary_max,
     is_active |-> TRUE, views |-> 0, applications_count |-> 0]

SeedJobs ==
    (1 :> NewJobDoc("Backend Engineering Intern", 1, "Technology", "Internship",
                    Some(15000), Some(25000))) @@
    (2 :> NewJobDoc("Full Stack Developer", 1, "Technology", "Full-Time",
                    Some(800000), Some(1400000))) @@
    (3 :> NewJobDoc("Finance & Investment Intern", 2, "Finance", "Internship",
                    Some(20000), Some(30000))) @@
    (4 :> NewJobDoc("UI/UX Design Intern", 3, "Design", "Internship",
                    Some(12000), Some(18000)))

NumSeedJobs == Cardinality(DOMAIN SeedJobs)
NumSeedCompanies == Cardinality(DOMAIN SeedCompanies)

\* the job ids requests are made for: seeded ones, created ones, a missing one
ReqJobIds == {NoId, 1, NumSeedJobs + 1}
ReqCompanyIds == {NoId, 1, NumSeedCompanies + 1}

(***************************************************************************)
(* The store calls of pymongo that the handlers use.                       *)
(***************************************************************************)
\* find_one({"id": id}): the document, or None
FindOne(col, id) == IF id \in DOMAIN col THEN Some(col[id]) ELSE None

\* insert_one(doc) of a document with the given fresh id
InsertOne(col, id, doc) == col @@ (id :> doc)

\* IncOne with the increment lost
IncOneLost(col, id, field) == col

\* IncOne as update_one(..., upsert=True): a missing document is created
IncOneUpsert(col, id, field) ==
    IF id \in DOMAIN col
    THEN [col EXCEPT ![id] = [@ EXCEPT ![field] = @ + 1]]
    ELSE col @@ (id :> [f \in {field} |-> 1])

\* update_one({"id": id}, {"$inc": {field: 1}}): atomic, no upsert
IncOne(col, id, field) ==
    IF id \in DOMAIN col
    THEN [col EXCEPT ![id] = [@ EXCEPT ![field] = @ + 1]]
    ELSE col

\* update_one({"id": id}, {"$set": updates}): atomic, no upsert
SetOne(col, id, updates) ==
    IF id \in DOMAIN col
    THEN [col EXCEPT ![id] =
            [f \in DOMAIN @ |-> IF f \in DOMAIN updates THEN updates[f] ELSE @[f]]]
    ELSE col

\* delete_one({"id": id})
DeleteOne(col, id) == [i \in DOMAIN col \ {id} |-> col[i]]
DeletedCount(col, id) == IF id \in DOMAIN col THEN 1 ELSE 0

\* _enrich_job: the job with its company document, or None, attached
EnrichJob(job) == [job |-> job, company |-> FindOne(companies, job.company_id)]

\* the ids of the application documents matching {"job_id", "applicant_email"}
AppsOf(job_id, email) ==
    {a \in DOMAIN applications :
        applications[a].job_id = job_id /\ applications[a].applicant_email = email}

\* the positions of the bookmark documents matching {"student_email", "job_id"}
BookmarksOf(email, job_id) ==
    {i \in DOMAIN bookmarks :
        bookmarks[i].student_email = email /\ bookmarks[i].job_id = job_id}

Response(op, code, req, body) == [op |-> op, code |-> code, req |-> req, body |-> body]
NoBody == <<>>
NoResponse == Response("", 0, <<>>, NoBody)

\* a worker with no request in hand; code and body are its last response
IdleProc ==
    [pc |-> "idle", op |-> "", job_id |-> NoId, data |-> <<>>,
     job |-> None, company |-> None, code |-> 0, body |-> NoBody]
NoTally == [j \in ReqJobIds |-> 0]

Init ==
    /\ companies = SeedCompanies
    /\ jobs = SeedJobs
    /\ applications = <<>>
    /\ bookmarks = <<>>
    /\ jobSeq = NumSeedJobs
    /\ resp = NoResponse
    /\ writes = 0
    /\ proc = [p \in Procs |-> IdleProc]
    /\ started = 0
    /\ tally = [viewed |-> NoTally, applied |-> NoTally, failed |-> NoTally]

\* requests are served one at a time: none is being answered
Idle == resp = NoResponse

\* a handler that raises HTTPException(code): nothing is written
Fail(op, code, req) ==
    /\ resp' = Response(op, code, req, NoBody)
    /\ UNCHANGED <<companies, jobs, applications, bookmarks, jobSeq, writes>>
    /\ UNCHANGED concVars

\* a handler that writes and answers
Answer(op, code, req, body) ==
    /\ writes < MaxWrites
    /\ writes' = writes + 1
    /\ resp' = Response(op, code, req, body)
    /\ UNCHANGED concVars

(***************************************************************************)
(* Companies and jobs.                                                     *)
(***************************************************************************)
\* POST /companies
create_company(name) ==
    LET cid == Cardinality(DOMAIN companies) + 1
        doc == [name |-> name, total_jobs_posted |-> 0]
    IN  /\ companies' = InsertOne(companies, cid, doc)
        /\ Answer("create_company", 201, [name |-> name], [id |-> cid, doc |-> doc])
        /\ UNCHANGED <<jobs, applications, bookmarks, jobSeq>>

\* create_job with the insert ahead of the company lookup
create_job_unchecked(data) ==
    LET req == [data |-> data]
        jid == jobSeq + 1
        doc == NewJobDoc(data.title, data.company_id, data.category,
                         data.job_type, data.salary_min, data.salary_max)
        found == ~IsNone(FindOne(companies, data.company_id))
    IN  /\ jobSeq' = jid
        /\ jobs' = InsertOne(jobs, jid, doc)
        /\ companies' = IncOne(companies, data.company_id, "total_jobs_posted")
        /\ Answer("create_job", IF found THEN 201 ELSE 404, req,
                  IF found THEN [id |-> jid, job |-> doc,
                                 company |-> FindOne(companies', doc.company_id)]
                  ELSE NoBody)
        /\ UNCHANGED <<applications, bookmarks>>

\* create_job without the company lookup of line 367: any company_id is taken
create_job_for_any_company(data) ==
    LET req == [data |-> data]
        jid == jobSeq + 1
        doc == NewJobDoc(data.title, data.company_id, data.category,
                         data.job_type, data.salary_min, data.salary_max)
    IN  /\ jobSeq' = jid
        /\ jobs' = InsertOne(jobs, jid, doc)
        /\ companies' = IncOne(companies, data.company_id, "total_jobs_posted")
        /\ Answer("create_job", 201, req,
                  [id |-> jid, job |-> doc,
                   company |-> FindOne(companies', doc.company_id)])
        /\ UNCHANGED <<applications, bookmarks>>

\* POST /jobs
create_job(data) ==
    LET req == [data |-> data] IN
    IF IsNone(FindOne(companies, data.company_id))
    THEN Fail("create_job", 404, req)
    ELSE LET jid == jobSeq + 1
             doc == NewJobDoc(data.title, data.company_id, data.category,
                              data.job_type, data.salary_min, data.salary_max)
         IN  /\ jobSeq' = jid
             /\ jobs' = InsertOne(jobs, jid, doc)
             /\ companies' = IncOne(companies, data.company_id, "total_jobs_posted")
             /\ Answer("create_job", 201, req,
                        [id |-> jid, job |-> doc,
                         company |-> FindOne(companies', doc.company_id)])
             /\ UNCHANGED <<applications, bookmarks>>

\* get_job answering with the document as found, line 438 left out
get_job_stale(job_id) ==
    LET job == FindOne(jobs, job_id)
        req == [job_id |-> job_id]
    IN  IF IsNone(job)
        THEN Fail("get_job", 404, req)
        ELSE /\ jobs' = IncOne(jobs, job_id, "views")
             /\ Answer("get_job", 200, req, EnrichJob(The(job)))
             /\ UNCHANGED <<companies, applications, bookmarks, jobSeq>>

\* GET /jobs/{job_id}
get_job(job_id) ==
    LET job == FindOne(jobs, job_id)
        req == [job_id |-> job_id]
    IN  IF IsNone(job)
        THEN Fail("get_job", 404, req)
        ELSE /\ jobs' = IncOne(jobs, job_id, "views")
             /\ Answer("get_job", 200, req,
                       EnrichJob([The(job) EXCEPT !.views = @ + 1]))
             /\ UNCHANGED <<companies, applications, bookmarks, jobSeq>>

\* JobUpdate.model_dump() without the fields that are None
UpdatesOf(data) ==
    [f \in {g \in DOMAIN data : ~IsNone(data[g])} |-> The(data[f])]

\* update_job carrying a new title over to the job's applications
update_job_retitling(job_id, data) ==
    LET req == [job_id |-> job_id, data |-> data] IN
    IF IsNone(FindOne(jobs, job_id))
    THEN Fail("update_job", 404, req)
    ELSE /\ jobs' = SetOne(jobs, job_id, UpdatesOf(data))
         /\ applications' =
                [a \in DOMAIN applications |->
                    IF applications[a].job_id = job_id
                    THEN [applications[a] EXCEPT !.job_title = jobs'[job_id].title]
                    ELSE applications[a]]
         /\ Answer("update_job", 200, req, EnrichJob(jobs'[job_id]))
         /\ UNCHANGED <<companies, bookmarks, jobSeq>>

\* PATCH /jobs/{job_id}
update_job(job_id, data) ==
    LET req == [job_id |-> job_id, data |-> data] IN
    IF IsNone(FindOne(jobs, job_id))
    THEN Fail("update_job", 404, req)
    ELSE /\ jobs' = SetOne(jobs, job_id, UpdatesOf(data))
         /\ Answer("update_job", 200, req, EnrichJob(jobs'[job_id]))
         /\ UNCHANGED <<companies, applications, bookmarks, jobSeq>>

\* delete_job taking the job off its company's total_jobs_posted as well
delete_job_decrementing(job_id) ==
    LET req == [job_id |-> job_id] IN
    IF DeletedCount(jobs, job_id) = 0
    THEN Fail("delete_job", 404, req)
    ELSE /\ jobs' = DeleteOne(jobs, job_id)
         /\ companies' = [companies EXCEPT ![jobs[job_id].company_id] =
                              [@ EXCEPT !.total_jobs_posted = @ - 1]]
         /\ Answer("delete_job", 200, req, NoBody)
         /\ UNCHANGED <<applications, bookmarks, jobSeq>>

\* delete_job taking the job's applications and bookmarks along
delete_job_cascading(job_id) ==
    LET req == [job_id |-> job_id]
        kept == {a \in DOMAIN applications : applications[a].job_id # job_id}
    IN  IF DeletedCount(jobs, job_id) = 0
        THEN Fail("delete_job", 404, req)
        ELSE /\ jobs' = DeleteOne(jobs, job_id)
             /\ applications' = [a \in kept |-> applications[a]]
             /\ bookmarks' = SelectSeq(bookmarks, LAMBDA bm : bm.job_id # job_id)
             /\ Answer("delete_job", 200, req, NoBody)
             /\ UNCHANGED <<companies, jobSeq>>

\* DELETE /jobs/{job_id}
delete_job(job_id) ==
    LET req == [job_id |-> job_id] IN
    IF DeletedCount(jobs, job_id) = 0
    THEN Fail("delete_job", 404, req)
    ELSE /\ jobs' = DeleteOne(jobs, job_id)
         /\ Answer("delete_job", 200, req, NoBody)
         /\ UNCHANGED <<companies, applications, bookmarks, jobSeq>>

(***************************************************************************)
(* The application workflow.                                               *)
(***************************************************************************)
\* What the tokeninfo call can do: requests.get raises (network error,
\* timeout), or answers with a status and a body that resp.json() either
\* cannot turn into a dict (parses = FALSE) or turns into a dict with or
\* without an "email" key.
NetworkError == [raised |-> TRUE, status |-> 0, parses |-> FALSE, email |-> None]
NoCall == [raised |-> FALSE, status |-> 0, parses |-> FALSE, email |-> None]
VerifyAnswers ==
    {NetworkError}
      \cup {[raised |-> FALSE, status |-> 401, parses |-> TRUE, email |-> None]}
      \cup {[raised |-> FALSE, status |-> 200, parses |-> FALSE, email |-> None]}
      \cup {[raised |-> FALSE, status |-> 200, parses |-> TRUE, email |-> e] :
                e \in {None} \cup {Some(m) : m \in Emails}}

\* `if data.google_access_token:` (None and "" are falsy)
CallsVerifier(data) ==
    ~IsNone(data.google_access_token) /\ The(data.google_access_token) # ""

\* VerifyCode with `except Exception: pass` left out: an unreachable or
\* unreadable verifier rejects the application
VerifyCodeStrict(data, answer) ==
    IF ~CallsVerifier(data) THEN 0
    ELSE IF answer.raised THEN 401
    ELSE IF answer.status # 200 THEN 401
    ELSE IF ~answer.parses THEN 401
    ELSE IF answer.email # Some(data.applicant_email) THEN 403
    ELSE 0

\* the try block: 0 when the flow goes on to the duplicate check,
\* else the status of the HTTPException raised
VerifyCode(data, answer) ==
    IF ~CallsVerifier(data) THEN 0
    ELSE IF answer.raised THEN 0
    ELSE IF answer.status # 200 THEN 401
    ELSE IF ~answer.parses THEN 0
    ELSE IF answer.email # Some(data.applicant_email) THEN 403
    ELSE 0

\* SubmitCode without the duplicate check
SubmitCodeNoDuplicateCheck(job_id, data, answer) ==
    LET job == FindOne(jobs, job_id) IN
    IF IsNone(job) THEN 404
    ELSE IF ~The(job).is_active THEN 400
    ELSE VerifyCode(data, answer)

\* SubmitCode with the verification moved before the active check
SubmitCodeVerifyFirst(job_id, data, answer) ==
    LET job == FindOne(jobs, job_id) IN
    IF IsNone(job) THEN 404
    ELSE IF VerifyCode(data, answer) # 0 THEN VerifyCode(data, answer)
    ELSE IF ~The(job).is_active THEN 400
    ELSE IF AppsOf(job_id, data.applicant_email) # {} THEN 409
    ELSE 0

\* SubmitCode with the duplicate check moved before the verification
SubmitCodeDuplicateFirst(job_id, data, answer) ==
    LET job == FindOne(jobs, job_id) IN
    IF IsNone(job) THEN 404
    ELSE IF ~The(job).is_active THEN 400
    ELSE IF AppsOf(job_id, data.applicant_email) # {} THEN 409
    ELSE VerifyCode(data, answer)

\* the checks of _submit_application in the order the code makes them:
\* the status of the HTTPException raised, or 0 when the insert is reached
SubmitCode(job_id, data, answer) ==
    LET job == FindOne(jobs, job_id) IN
    IF IsNone(job) THEN 404
    ELSE IF ~The(job).is_active THEN 400
    ELSE IF VerifyCode(data, answer) # 0 THEN VerifyCode(data, answer)
    ELSE IF AppsOf(job_id, data.applicant_email) # {} THEN 409
    ELSE 0

\* app_doc: **data.model_dump(), then the fields the handler sets
AppDoc(job_id, data, job, company) ==
    [applicant_name |-> data.applicant_name,
     applicant_email |-> data.applicant_email,
     google_access_token |-> data.google_access_token,
     job_id |-> job_id,
     job_title |-> job.title,
     company_name |-> IF IsNone(company) THEN "Unknown" ELSE The(company).name,
     status |-> "Pending"]

\* SubmitApplication with the counter raised as soon as the job is found,
\* before the checks that can still turn the application away
SubmitApplicationCountsFirst(op, job_id, data, answer) ==
    LET req == [job_id |-> job_id, data |-> data, answer |-> answer]
        code == SubmitCode(job_id, data, answer)
    IN  IF code = 404
        THEN Fail(op, code, req)
        ELSE LET job == jobs[job_id]
                 id == Cardinality(DOMAIN applications) + 1
                 app_doc == AppDoc(job_id, data, job, FindOne(companies, job.company_id))
             IN  /\ applications' = IF code = 0 THEN InsertOne(applications, id, app_doc)
                                     ELSE applications
                 /\ jobs' = IncOne(jobs, job_id, "applications_count")
                 /\ Answer(op, IF code = 0 THEN 201 ELSE code, req,
                           IF code = 0 THEN [id |-> id, doc |-> app_doc] ELSE NoBody)
                 /\ UNCHANGED <<companies, bookmarks, jobSeq>>

\* _submit_application, called by the entry point op
SubmitApplication(op, job_id, data, answer) ==
    LET req == [job_id |-> job_id, data |-> data, answer |-> answer]
        code == SubmitCode(job_id, data, answer)
    IN  IF code # 0
        THEN Fail(op, code, req)
        ELSE LET job == jobs[job_id]
                 id == Cardinality(DOMAIN applications) + 1
                 app_doc == AppDoc(job_id, data, job, FindOne(companies, job.company_id))
             IN  /\ applications' = InsertOne(applications, id, app_doc)
                 /\ jobs' = IncOne(jobs, job_id, "applications_count")
                 /\ Answer(op, 201, req, [id |-> id, doc |-> app_doc])
                 /\ UNCHANGED <<companies, bookmarks, jobSeq>>

\* the answers the verifier can give to this request
AnswersFor(data) == IF CallsVerifier(data) THEN VerifyAnswers ELSE {NoCall}

\* POST /jobs/{job_id}/apply
apply_for_job(job_id, data) ==
    \E answer \in AnswersFor(data) : SubmitApplication("apply_for_job", job_id, data, answer)

\* pydantic's EmailStr: rejects what is no address, and hands the handler the
\* address with its domain in lower case
ValidEmail(e) == e \in {"a@x.com", "a@X.com"}
NormalizedEmail(e) == IF e = "a@X.com" THEN "a@x.com" ELSE e

\* ApplicationCreate(...) built from ApplicationCreateCompat
MapCompat(data) ==
    [applicant_name |-> data.full_name,
     applicant_email |-> NormalizedEmail(data.email),
     google_access_token |-> data.google_access_token]

\* POST /applications
apply_for_job_compat(data) ==
    IF ~ValidEmail(data.email)
    THEN Fail("apply_for_job_compat", 422, [job_id |-> data.job_id, data |-> data, answer |-> NoCall])
    ELSE \E answer \in AnswersFor(MapCompat(data)) :
            SubmitApplication("apply_for_job_compat", data.job_id, MapCompat(data), answer)

\* PATCH /applications/{application_id}/status
update_application_status(application_id, status) ==
    LET req == [application_id |-> application_id, status |-> status] IN
    IF application_id \notin DOMAIN applications
    THEN Fail("update_application_status", 404, req)
    ELSE /\ applications' = SetOne(applications, application_id, [status |-> status])
         /\ Answer("update_application_status", 200, req, applications'[application_id])
         /\ UNCHANGED <<companies, jobs, bookmarks, jobSeq>>

(***************************************************************************)
(* Bookmarks.                                                              *)
(***************************************************************************)
\* POST /bookmarks
bookmark_job(data) ==
    LET req == [data |-> data] IN
    IF IsNone(FindOne(jobs, data.job_id))
    THEN Fail("bookmark_job", 404, req)
    ELSE IF BookmarksOf(data.student_email, data.job_id) # {}
    THEN Fail("bookmark_job", 409, req)
    ELSE /\ bookmarks' = Append(bookmarks, data)
         /\ Answer("bookmark_job", 201, req, NoBody)
         /\ UNCHANGED <<companies, jobs, applications, jobSeq>>

\* delete_one(filter) on the bookmarks: the first matching document goes
RemoveAt(seq, i) == [k \in 1 .. Len(seq) - 1 |-> IF k < i THEN seq[k] ELSE seq[k + 1]]

\* DELETE /bookmarks
remove_bookmark(data) ==
    LET req == [data |-> data]
        hits == BookmarksOf(data.student_email, data.job_id)
    IN  IF hits = {}
        THEN Fail("remove_bookmark", 404, req)
        ELSE /\ bookmarks' = RemoveAt(bookmarks, CHOOSE i \in hits : \A k \in hits : i <= k)
             /\ Answer("remove_bookmark", 200, req, NoBody)
             /\ UNCHANGED <<companies, jobs, applications, jobSeq>>

(***************************************************************************)
(* Requests served one at a time.                                          *)
(***************************************************************************)
JobCreates ==
    [title : NewTitles, company_id : ReqCompanyIds, category : {"Technology"},
     job_type : {"Full-Time"}, salary_min : {None}, salary_max : {None}]
JobUpdates ==
    [title : {None, Some("Senior Engineer")}, is_active : {None, Some(TRUE), Some(FALSE)}]
ApplicationCreates ==
    [applicant_name : {"Ann"}, applicant_email : Emails, google_access_token : Tokens]
ApplicationCreateCompats ==
    [job_id : ReqJobIds, full_name : {"Ann"}, email : Emails \cup {"ann"},
     google_access_token : Tokens]
ReqAppIds == {NoId, 1, 2}
BookmarkCreates == [student_email : {"a@x.com"}, job_id : ReqJobIds]

\* the response reaches the client
deliver ==
    /\ resp # NoResponse
    /\ resp' = NoResponse
    /\ UNCHANGED <<companies, jobs, applications, bookmarks, jobSeq, writes>>
    /\ UNCHANGED concVars

\* the handlers, each run to completion before the next request is taken
Next ==
    \/ Idle /\ \E name \in NewCompanyNames : create_company(name)
    \/ Idle /\ \E data \in JobCreates : create_job(data)
    \/ Idle /\ \E job_id \in ReqJobIds : get_job(job_id)
    \/ Idle /\ \E job_id \in ReqJobIds, data \in JobUpdates : update_job(job_id, data)
    \/ Idle /\ \E job_id \in ReqJobIds : delete_job(job_id)
    \/ Idle /\ \E job_id \in ReqJobIds, data \in ApplicationCreates : apply_for_job(job_id, data)
    \/ Idle /\ \E data \in ApplicationCreateCompats : apply_for_job_compat(data)
    \/ Idle /\ \E id \in ReqAppIds, status \in Statuses : update_application_status(id, status)
    \/ Idle /\ \E data \in BookmarkCreates : bookmark_job(data)
    \/ Idle /\ \E data \in BookmarkCreates : remove_bookmark(data)
    \/ deliver

Spec == Init /\ [][Next]_vars

(***************************************************************************)
(* The same handlers with requests interleaved: one step per store call.   *)
(* A worker takes a request with the handler's first store call.           *)
(***************************************************************************)
\* worker p takes a request: it is idle and the run has requests left
Take(p) == proc[p].pc = "idle" /\ started < MaxRequests

\* worker p goes to pc with the locals changed as in upd
Goto(p, pc, upd) ==
    proc' = [proc EXCEPT ![p] =
                [f \in DOMAIN @ |-> IF f = "pc" THEN pc
                                    ELSE IF f \in DOMAIN upd THEN upd[f] ELSE @[f]]]

\* worker p answers: code and body stay behind as its last response
Return(p, code, body) ==
    Goto(p, "idle", [code |-> code, body |-> body, job |-> None, company |-> None])

Tallied(kind, job_id) ==
    [tally EXCEPT ![kind] = [@ EXCEPT ![job_id] = @ + 1]]

\* _submit_application, lines 461-482: the job lookup, the active check and
\* the tokeninfo call
submit_find_job(p, job_id, data, answer) ==
    LET job == FindOne(jobs, job_id)
        req == [op |-> "apply_for_job", job_id |-> job_id, data |-> data]
        code == IF IsNone(job) THEN 404
                ELSE IF ~The(job).is_active THEN 400
                ELSE VerifyCode(data, answer)
    IN  /\ Take(p)
        /\ started' = started + 1
        /\ IF code # 0
           THEN Goto(p, "idle", req @@ [code |-> code, body |-> NoBody])
           ELSE Goto(p, "duplicate_check", req @@ [job |-> job, code |-> 0, body |-> NoBody])
        /\ UNCHANGED <<companies, jobs, applications, bookmarks, jobSeq, tally>>
        /\ UNCHANGED seqVars

\* line 485
submit_duplicate_check(p) ==
    /\ proc[p].pc = "duplicate_check"
    /\ IF AppsOf(proc[p].job_id, proc[p].data.applicant_email) # {}
       THEN Return(p, 409, NoBody)
       ELSE Goto(p, "find_company", <<>>)
    /\ UNCHANGED <<companies, jobs, applications, bookmarks, jobSeq, started, tally>>
    /\ UNCHANGED seqVars

\* line 488
submit_find_company(p) ==
    /\ proc[p].pc = "find_company"
    /\ Goto(p, "insert", [company |-> FindOne(companies, The(proc[p].job).company_id)])
    /\ UNCHANGED <<companies, jobs, applications, bookmarks, jobSeq, started, tally>>
    /\ UNCHANGED seqVars

\* submit_insert counting the application already, ahead of line 502
submit_insert_counting(p) ==
    LET id == Cardinality(DOMAIN applications) + 1
        app_doc == AppDoc(proc[p].job_id, proc[p].data, The(proc[p].job), proc[p].company)
    IN  /\ proc[p].pc = "insert"
        /\ applications' = InsertOne(applications, id, app_doc)
        /\ jobs' = IncOne(jobs, proc[p].job_id, "applications_count")
        /\ Goto(p, "increment", [body |-> [id |-> id, doc |-> app_doc]])
        /\ UNCHANGED <<companies, bookmarks, jobSeq, started, tally>>
        /\ UNCHANGED seqVars

\* lines 490-501
submit_insert(p) ==
    LET id == Cardinality(DOMAIN applications) + 1
        app_doc == AppDoc(proc[p].job_id, proc[p].data, The(proc[p].job), proc[p].company)
    IN  /\ proc[p].pc = "insert"
        /\ applications' = InsertOne(applications, id, app_doc)
        /\ Goto(p, "increment", [body |-> [id |-> id, doc |-> app_doc]])
        /\ UNCHANGED <<companies, jobs, bookmarks, jobSeq, started, tally>>
        /\ UNCHANGED seqVars

\* submit_increment writing back the count read at line 461 plus one
submit_increment_from_snapshot(p) ==
    /\ proc[p].pc = "increment"
    /\ jobs' = SetOne(jobs, proc[p].job_id,
                      [applications_count |-> The(proc[p].job).applications_count + 1])
    /\ Return(p, 201, proc[p].body)
    /\ tally' = Tallied("applied", proc[p].job_id)
    /\ UNCHANGED <<companies, applications, bookmarks, jobSeq, started>>
    /\ UNCHANGED seqVars

\* lines 502-503
submit_increment(p) ==
    /\ proc[p].pc = "increment"
    /\ jobs' = IncOne(jobs, proc[p].job_id, "applications_count")
    /\ Return(p, 201, proc[p].body)
    /\ tally' = Tallied("applied", proc[p].job_id)
    /\ UNCHANGED <<companies, applications, bookmarks, jobSeq, started>>
    /\ UNCHANGED seqVars

\* the request dies between the insert of line 501 and the increment of
\* line 502 (the store call raises, the server process is killed)
submit_fail_before_increment(p) ==
    /\ proc[p].pc = "increment"
    /\ Return(p, 500, NoBody)
    /\ tally' = Tallied("failed", proc[p].job_id)
    /\ UNCHANGED <<companies, jobs, applications, bookmarks, jobSeq, started>>
    /\ UNCHANGED seqVars

\* get_job, lines 434-436
get_job_find(p, job_id) ==
    LET job == FindOne(jobs, job_id)
        req == [op |-> "get_job", job_id |-> job_id, data |-> <<>>]
    IN  /\ Take(p)
        /\ started' = started + 1
        /\ IF IsNone(job)
           THEN Goto(p, "idle", req @@ [code |-> 404, body |-> NoBody])
           ELSE Goto(p, "views_increment", req @@ [job |-> job, code |-> 0, body |-> NoBody])
        /\ UNCHANGED <<companies, jobs, applications, bookmarks, jobSeq, tally>>
        /\ UNCHANGED seqVars

\* get_job_increment writing back the views read at line 434 plus one
get_job_increment_from_snapshot(p) ==
    /\ proc[p].pc = "views_increment"
    /\ jobs' = SetOne(jobs, proc[p].job_id, [views |-> The(proc[p].job).views + 1])
    /\ Goto(p, "enrich", [job |-> Some([The(proc[p].job) EXCEPT !.views = @ + 1])])
    /\ UNCHANGED <<companies, applications, bookmarks, jobSeq, started, tally>>
    /\ UNCHANGED seqVars

\* lines 437-438
get_job_increment(p) ==
    /\ proc[p].pc = "views_increment"
    /\ jobs' = IncOne(jobs, proc[p].job_id, "views")
    /\ Goto(p, "enrich", [job |-> Some([The(proc[p].job) EXCEPT !.views = @ + 1])])
    /\ UNCHANGED <<companies, applications, bookmarks, jobSeq, started, tally>>
    /\ UNCHANGED seqVars

\* line 439
get_job_enrich(p) ==
    /\ proc[p].pc = "enrich"
    /\ Return(p, 200, EnrichJob(The(proc[p].job)))
    /\ tally' = Tallied("viewed", proc[p].job_id)
    /\ UNCHANGED <<companies, jobs, applications, bookmarks, jobSeq, started>>
    /\ UNCHANGED seqVars

\* delete_job, lines 454-456: a single store call
delete_job_call(p, job_id) ==
    LET req == [op |-> "delete_job", job_id |-> job_id, data |-> <<>>] IN
    /\ Take(p)
    /\ started' = started + 1
    /\ jobs' = DeleteOne(jobs, job_id)
    /\ Goto(p, "idle", req @@ [code |-> IF DeletedCount(jobs, job_id) = 0 THEN 404 ELSE 200,
                              body |-> NoBody])
    /\ UNCHANGED <<companies, applications, bookmarks, jobSeq, tally>>
    /\ UNCHANGED seqVars

\* update_job, lines 444-445
update_job_find(p, job_id, data) ==
    LET req == [op |-> "update_job", job_id |-> job_id, data |-> data] IN
    /\ Take(p)
    /\ started' = started + 1
    /\ IF IsNone(FindOne(jobs, job_id))
       THEN Goto(p, "idle", req @@ [code |-> 404, body |-> NoBody])
       ELSE Goto(p, "set", req @@ [code |-> 0, body |-> NoBody])
    /\ UNCHANGED <<companies, jobs, applications, bookmarks, jobSeq, tally>>
    /\ UNCHANGED seqVars

\* lines 446-448
update_job_set(p) ==
    /\ proc[p].pc = "set"
    /\ jobs' = SetOne(jobs, proc[p].job_id, UpdatesOf(proc[p].data))
    /\ Goto(p, "refetch", <<>>)
    /\ UNCHANGED <<companies, applications, bookmarks, jobSeq, started, tally>>
    /\ UNCHANGED seqVars

\* line 449: find_one again; _enrich_job(None) raises AttributeError
update_job_refetch(p) ==
    LET job == FindOne(jobs, proc[p].job_id) IN
    /\ proc[p].pc = "refetch"
    /\ IF IsNone(job)
       THEN Return(p, 500, NoBody)
       ELSE Goto(p, "enrich_updated", [job |-> job])
    /\ UNCHANGED <<companies, jobs, applications, bookmarks, jobSeq, started, tally>>
    /\ UNCHANGED seqVars

\* line 449, the company lookup of _enrich_job
update_job_enrich(p) ==
    /\ proc[p].pc = "enrich_updated"
    /\ Return(p, 200, EnrichJob(The(proc[p].job)))
    /\ UNCHANGED <<companies, jobs, applications, bookmarks, jobSeq, started, tally>>
    /\ UNCHANGED seqVars

\* create_job, lines 367-368
create_job_find_company(p, data) ==
    LET req == [op |-> "create_job", job_id |-> NoId, data |-> data] IN
    /\ Take(p)
    /\ started' = started + 1
    /\ IF IsNone(FindOne(companies, data.company_id))
       THEN Goto(p, "idle", req @@ [code |-> 404, body |-> NoBody])
       ELSE Goto(p, "insert_job", req @@ [code |-> 0, body |-> NoBody])
    /\ UNCHANGED <<companies, jobs, applications, bookmarks, jobSeq, tally>>
    /\ UNCHANGED seqVars

\* lines 369-377
create_job_insert(p) ==
    LET jid == jobSeq + 1
        data == proc[p].data
        doc == NewJobDoc(data.title, data.company_id, data.category,
                         data.job_type, data.salary_min, data.salary_max)
    IN  /\ proc[p].pc = "insert_job"
        /\ jobSeq' = jid
        /\ jobs' = InsertOne(jobs, jid, doc)
        /\ Goto(p, "increment_posted", [job_id |-> jid, job |-> Some(doc)])
        /\ UNCHANGED <<companies, applications, bookmarks, started, tally>>
        /\ UNCHANGED seqVars

\* line 378
create_job_increment(p) ==
    /\ proc[p].pc = "increment_posted"
    /\ companies' = IncOne(companies, proc[p].data.company_id, "total_jobs_posted")
    /\ Goto(p, "enrich_created", <<>>)
    /\ UNCHANGED <<jobs, applications, bookmarks, jobSeq, started, tally>>
    /\ UNCHANGED seqVars

\* line 379
create_job_enrich(p) ==
    /\ proc[p].pc = "enrich_created"
    /\ Return(p, 201, EnrichJob(The(proc[p].job)))
    /\ UNCHANGED <<companies, jobs, applications, bookmarks, jobSeq, started, tally>>
    /\ UNCHANGED seqVars

ConcJobIds == {1, NumSeedJobs + 1}
ConcJobUpdates == [title : {None}, is_active : {Some(TRUE), Some(FALSE)}]
ConcJobCreates ==
    [title : NewTitles, company_id : {1}, category : {"Technology"},
     job_type : {"Full-Time"}, salary_min : {None}, salary_max : {None}]
ConcApplicationCreates ==
    [applicant_name : {"Ann"}, applicant_email : Emails, google_access_token : {None}]

NextConc ==
    \/ \E p \in Procs, job_id \in ConcJobIds, data \in ConcApplicationCreates :
            \E answer \in AnswersFor(data) : submit_find_job(p, job_id, data, answer)
    \/ \E p \in Procs : submit_duplicate_check(p)
    \/ \E p \in Procs : submit_find_company(p)
    \/ \E p \in Procs : submit_insert(p)
    \/ \E p \in Procs : submit_increment(p)
    \/ \E p \in Procs : submit_fail_before_increment(p)
    \/ \E p \in Procs, job_id \in ConcJobIds : get_job_find(p, job_id)
    \/ \E p \in Procs : get_job_increment(p)
    \/ \E p \in Procs : get_job_enrich(p)
    \/ \E p \in Procs, job_id \in ConcJobIds : delete_job_call(p, job_id)
    \/ \E p \in Procs, job_id \in ConcJobIds, data \in ConcJobUpdates :
            update_job_find(p, job_id, data)
    \/ \E p \in Procs : update_job_set(p)
    \/ \E p \in Procs : update_job_refetch(p)
    \/ \E p \in Procs : update_job_enrich(p)
    \/ \E p \in Procs, data \in ConcJobCreates : create_job_find_company(p, data)
    \/ \E p \in Procs : create_job_insert(p)
    \/ \E p \in Procs : create_job_increment(p)
    \/ \E p \in Procs : create_job_enrich(p)

SpecConc == Init /\ [][NextConc]_vars

(***************************************************************************)
(* The bookmark manager: bookmark_job taken one store call at a time by    *)
(* the workers, next to requests that are served without interruption.     *)
(***************************************************************************)
\* a handler that answers 200 and writes nothing
Read(op, req, body) ==
    /\ resp' = Response(op, 200, req, body)
    /\ UNCHANGED <<companies, jobs, applications, bookmarks, jobSeq, writes>>
    /\ UNCHANGED concVars

\* the loop of get_bookmarks over the bookmarks bms, in stored order: the
\* jobs found, enriched; a bookmark whose job is not found adds nothing
RECURSIVE BookmarkedJobs(_, _)
BookmarkedJobs(bms, email) ==
    IF bms = <<>> THEN <<>>
    ELSE LET bm == Head(bms)
             job == FindOne(jobs, bm.job_id)
             rest == BookmarkedJobs(Tail(bms), email)
         IN  IF bm.student_email # email THEN rest
             ELSE IF IsNone(job) THEN rest
             ELSE <<[id |-> bm.job_id] @@ EnrichJob(The(job))>> \o rest

\* GET /students/{email}/bookmarks
get_bookmarks(email) ==
    LET found == BookmarkedJobs(bookmarks, email) IN
    Read("get_bookmarks", [email |-> email], [bookmarks |-> found, total |-> Len(found)])

\* bookmark_job, lines 578-579
bookmark_find_job(p, data) ==
    LET req == [op |-> "bookmark_job", job_id |-> data.job_id, data |-> data] IN
    /\ Take(p)
    /\ started' = started + 1
    /\ IF IsNone(FindOne(jobs, data.job_id))
       THEN Goto(p, "idle", req @@ [code |-> 404, body |-> NoBody])
       ELSE Goto(p, "find_bookmark", req @@ [code |-> 0, body |-> NoBody])
    /\ UNCHANGED <<companies, jobs, applications, bookmarks, jobSeq, tally>>
    /\ UNCHANGED seqVars

\* lines 580-581
bookmark_find_existing(p) ==
    /\ proc[p].pc = "find_bookmark"
    /\ IF BookmarksOf(proc[p].data.student_email, proc[p].data.job_id) # {}
       THEN Return(p, 409, NoBody)
       ELSE Goto(p, "insert_bookmark", <<>>)
    /\ UNCHANGED <<companies, jobs, applications, bookmarks, jobSeq, started, tally>>
    /\ UNCHANGED seqVars

\* lines 582-587
bookmark_insert(p) ==
    /\ proc[p].pc = "insert_bookmark"
    /\ bookmarks' = Append(bookmarks, proc[p].data)
    /\ Return(p, 201, NoBody)
    /\ UNCHANGED <<companies, jobs, applications, jobSeq, started, tally>>
    /\ UNCHANGED seqVars

Students == {"a@x.com", "b@x.com"}
BookmarkedJobIds == {1, 2}
BookmarkRequests == [student_email : Students, job_id : BookmarkedJobIds]

NextBookmarks ==
    \/ \E p \in Procs, data \in BookmarkRequests : bookmark_find_job(p, data)
    \/ \E p \in Procs : bookmark_find_existing(p)
    \/ \E p \in Procs : bookmark_insert(p)
    \/ Idle /\ \E data \in BookmarkRequests : remove_bookmark(data)
    \/ Idle /\ \E job_id \in BookmarkedJobIds : delete_job(job_id)
    \/ Idle /\ \E email \in Students : get_bookmarks(email)
    \/ deliver

SpecBookmarks == Init /\ [][NextBookmarks]_vars

\* the same requests, bookmark_job too served without interruption
NextBookmarksSerial ==
    \/ Idle /\ \E data \in BookmarkRequests : bookmark_job(data)
    \/ Idle /\ \E data \in BookmarkRequests : remove_bookmark(data)
    \/ Idle /\ \E job_id \in BookmarkedJobIds : delete_job(job_id)
    \/ Idle /\ \E email \in Students : get_bookmarks(email)
    \/ deliver

SpecBookmarksSerial == Init /\ [][NextBookmarksSerial]_vars

(***************************************************************************)
(* Application status: update_application_status and the application       *)
(* workflow, one step per store call.                                      *)
(***************************************************************************)
\* update_application_status, lines 557-558
update_status_find(p, application_id, status) ==
    LET req == [op |-> "update_application_status", job_id |-> NoId,
                data |-> [application_id |-> application_id, status |-> status]]
    IN  /\ Take(p)
        /\ started' = started + 1
        /\ IF IsNone(FindOne(applications, application_id))
           THEN Goto(p, "idle", req @@ [code |-> 404, body |-> NoBody])
           ELSE Goto(p, "set_status", req @@ [code |-> 0, body |-> NoBody])
        /\ UNCHANGED <<companies, jobs, applications, bookmarks, jobSeq, tally>>
        /\ UNCHANGED seqVars

\* update_status_set refusing to leave Rejected or Accepted
update_status_set_unless_closed(p) ==
    LET id == proc[p].data.application_id IN
    /\ proc[p].pc = "set_status"
    /\ applications' = IF applications[id].status \in {"Rejected", "Accepted"}
                       THEN applications
                       ELSE SetOne(applications, id, [status |-> proc[p].data.status])
    /\ Goto(p, "refetch_application", <<>>)
    /\ UNCHANGED <<companies, jobs, bookmarks, jobSeq, started, tally>>
    /\ UNCHANGED seqVars

\* lines 559-562
update_status_set(p) ==
    /\ proc[p].pc = "set_status"
    /\ applications' = SetOne(applications, proc[p].data.application_id,
                              [status |-> proc[p].data.status])
    /\ Goto(p, "refetch_application", <<>>)
    /\ UNCHANGED <<companies, jobs, bookmarks, jobSeq, started, tally>>
    /\ UNCHANGED seqVars

\* lines 563-564
update_status_refetch(p) ==
    /\ proc[p].pc = "refetch_application"
    /\ Return(p, 200, The(FindOne(applications, proc[p].data.application_id)))
    /\ UNCHANGED <<companies, jobs, applications, bookmarks, jobSeq, started, tally>>
    /\ UNCHANGED seqVars

StatusApplicationIds == {NoId, 1}
StatusApplicationCreates ==
    [applicant_name : {"Ann"}, applicant_email : {"a@x.com"}, google_access_token : {None}]

NextStatus ==
    \/ \E p \in Procs, data \in StatusApplicationCreates :
            submit_find_job(p, 1, data, NoCall)
    \/ \E p \in Procs : submit_duplicate_check(p)
    \/ \E p \in Procs : submit_find_company(p)
    \/ \E p \in Procs : submit_insert(p)
    \/ \E p \in Procs : submit_increment(p)
    \/ \E p \in Procs : submit_fail_before_increment(p)
    \/ \E p \in Procs, id \in StatusApplicationIds, status \in Statuses :
            update_status_find(p, id, status)
    \/ \E p \in Procs : update_status_set(p)
    \/ \E p \in Procs : update_status_refetch(p)

SpecStatus == Init /\ [][NextStatus]_vars

(***************************************************************************)
(* The listing query: filter, sort, paginate.  The job documents of the    *)
(* model hold is_active, category, job_type and the salary range; the      *)
(* filters on fields they do not hold (search, experience_level, location, *)
(* is_remote) are not supplied.                                            *)
(***************************************************************************)
\* created_at: _seed() gives the seeded jobs one common time, create_job
\* stamps each job with the time of its creation
CreatedAt(id) == IF id \in DOMAIN SeedJobs THEN 0 ELSE id - NumSeedJobs

\* {"$regex": pattern, "$options": "i"}: the pattern is found in the value,
\* letter case ignored, for the patterns the queries use
RegexSearch(pattern, value) ==
    <<pattern, value>> \in {<<"tech", "Technology">>, <<"intern", "Internship">>}

\* `if category:` (None and "" are falsy)
Supplied(param) == ~IsNone(param) /\ The(param) # ""

\* MatchesSalary with a job without salary_max taken as matching
MatchesSalaryPermissive(job, salary_min) ==
    IsNone(salary_min) \/ IsNone(job.salary_max) \/ The(job.salary_max) >= The(salary_min)

\* line 408, {"salary_max": {"$gte": salary_min}}: a null salary_max is
\* not >= any number
MatchesSalary(job, salary_min) ==
    IsNone(salary_min) \/ (~IsNone(job.salary_max) /\ The(job.salary_max) >= The(salary_min))

\* lines 396-408: the job matches every condition put into q
Matches(job, params) ==
    /\ params.active_only => job.is_active
    /\ Supplied(params.category) => RegexSearch(The(params.category), job.category)
    /\ Supplied(params.job_type) => RegexSearch(The(params.job_type), job.job_type)
    /\ MatchesSalary(job, params.salary_min)

\* col_jobs.find(q), and count_documents(q) its cardinality
FindIds(params) == {j \in DOMAIN jobs : Matches(jobs[j], params)}

\* lines 410-417: the field sorted on and the direction
SortOrder(sort_by) ==
    IF sort_by = "oldest" THEN [field |-> "created_at", descending |-> FALSE]
    ELSE IF sort_by = "salary_high" THEN [field |-> "salary_max", descending |-> TRUE]
    ELSE IF sort_by = "salary_low" THEN [field |-> "salary_min", descending |-> FALSE]
    ELSE IF sort_by = "most_applied"
         THEN [field |-> "applications_count", descending |-> TRUE]
    ELSE [field |-> "created_at", descending |-> TRUE]

\* the value a job is sorted on
SortKey(id, field) ==
    IF field = "created_at" THEN Some(CreatedAt(id))
    ELSE IF field = "applications_count" THEN Some(jobs[id].applications_count)
    ELSE jobs[id][field]

\* the store's order of values: null below every number
KeyLess(a, b) == IF IsNone(a) THEN ~IsNone(b) ELSE ~IsNone(b) /\ The(a) < The(b)

\* job i has to come before job j
Precedes(i, j, order) ==
    IF order.descending
    THEN KeyLess(SortKey(j, order.field), SortKey(i, order.field))
    ELSE KeyLess(SortKey(i, order.field), SortKey(j, order.field))

\* .sort(sort_order): the store returns documents with equal keys in any
\* order, so every sorted arrangement of the ids is a possible result
RECURSIVE SortedOrders(_, _)
SortedOrders(ids, order) ==
    IF ids = {} THEN {<<>>}
    ELSE UNION {{<<m>> \o rest : rest \in SortedOrders(ids \ {m}, order)} :
                  m \in {i \in ids : \A j \in ids : ~Precedes(j, i, order)}}

\* Skip counting the pages from 0
SkipFromPage(page, page_size) == page * page_size

\* line 420
Skip(page, page_size) == (page - 1) * page_size

\* TotalPages by plain integer division
TotalPagesFloor(total, page_size) ==
    IF total \div page_size > 1 THEN total \div page_size ELSE 1

\* line 427
TotalPages(total, page_size) ==
    LET pages == (total + page_size - 1) \div page_size IN
    IF pages > 1 THEN pages ELSE 1

\* .skip(skip).limit(limit)
SkipLimit(seq, skip, limit) ==
    LET last == IF skip + limit < Len(seq) THEN skip + limit ELSE Len(seq) IN
    [k \in 1 .. (IF last > skip THEN last - skip ELSE 0) |-> seq[skip + k]]

\* GET /jobs
list_jobs(params, sort_by, page, page_size) ==
    LET total == Cardinality(FindIds(params))
        req == [params |-> params, sort_by |-> sort_by, page |-> page,
                page_size |-> page_size]
    IN  \E found \in SortedOrders(FindIds(params), SortOrder(sort_by)) :
            LET ids == SkipLimit(found, Skip(page, page_size), page_size) IN
            Read("list_jobs", req,
                 [jobs |-> [k \in DOMAIN ids |-> [id |-> ids[k]] @@ EnrichJob(jobs[ids[k]])],
                  pagination |-> [total |-> total, page |-> page, page_size |-> page_size,
                                  total_pages |-> TotalPages(total, page_size)]])

ListParams ==
    [active_only : BOOLEAN, category : {None, Some("tech")},
     job_type : {None, Some("intern")},
     salary_min : {None, Some(25000)}]
SortBys == {"newest", "oldest", "salary_high", "salary_low", "most_applied", "relevance"}
ListJobIds == {1, NumSeedJobs + 1}
ListJobCreates ==
    [title : NewTitles, company_id : {1}, category : {"Technology"},
     job_type : {"Full-Time"}, salary_min : {None}, salary_max : {None}]
ListJobUpdates == [title : {None}, is_active : {Some(FALSE)}]
ListApplicationCreates ==
    [applicant_name : {"Ann"}, applicant_email : {"a@x.com"}, google_access_token : {None}]

NextList ==
    \/ Idle /\ jobSeq < NumSeedJobs + MaxNewJobs
            /\ \E data \in ListJobCreates : create_job(data)
    \/ Idle /\ \E job_id \in ListJobIds, data \in ListJobUpdates : update_job(job_id, data)
    \/ Idle /\ \E job_id \in ListJobIds : delete_job(job_id)
    \/ Idle /\ \E job_id \in ListJobIds, data \in ListApplicationCreates :
                  apply_for_job(job_id, data)
    \/ Idle /\ \E params \in ListParams, sort_by \in SortBys,
                    page \in 1 .. MaxPage, page_size \in 1 .. MaxPageSize :
                  list_jobs(params, sort_by, page, page_size)
    \/ deliver

SpecList == Init /\ [][NextList]_vars

(***************************************************************************)
(* The aggregate reporter.                                                 *)
(***************************************************************************)
\* the length of the most_viewed_jobs and most_applied_jobs lists
TopN == 5

\* list(col.find()): the ids of the documents in stored order
RECURSIVE StoredOrder(_)
StoredOrder(ids) ==
    IF ids = {} THEN <<>>
    ELSE LET first == CHOOSE i \in ids : \A j \in ids : i <= j
         IN  <<first>> \o StoredOrder(ids \ {first})

\* the loops of lines 617-626: the number of documents per value of field
RECURSIVE Breakdown(_, _, _)
Breakdown(col, ids, field) ==
    IF ids = <<>> THEN <<>>
    ELSE LET counts == Breakdown(col, Tail(ids), field)
             value == col[Head(ids)][field]
         IN  [v \in DOMAIN counts \cup {value} |->
                 (IF v \in DOMAIN counts THEN counts[v] ELSE 0)
                   + (IF v = value THEN 1 ELSE 0)]

\* id put into the sorted sequence behind every id whose counter is at
\* least its own
RECURSIVE InsertSorted(_, _, _)
InsertSorted(sorted, id, field) ==
    IF sorted = <<>> THEN <<id>>
    ELSE IF jobs[Head(sorted)][field] >= jobs[id][field]
         THEN <<Head(sorted)>> \o InsertSorted(Tail(sorted), id, field)
         ELSE <<id>> \o sorted

\* SortedReverse with the order of equal counters turned round, as
\* sorted(...)[::-1] does
RECURSIVE SortedThenReversed(_, _)
SortedThenReversed(ids, field) ==
    IF ids = <<>> THEN <<>>
    ELSE LET rest == SortedThenReversed(Tail(ids), field)
             id == Head(ids)
             before == SelectSeq(rest, LAMBDA j : jobs[j][field] >= jobs[id][field])
             after == SelectSeq(rest, LAMBDA j : jobs[j][field] < jobs[id][field])
         IN  before \o <<id>> \o after

\* sorted(jobs, key=..., reverse=True): the sort is stable, jobs with equal
\* counters stay in the order of the list
RECURSIVE SortedReverse(_, _)
SortedReverse(ids, field) ==
    IF ids = <<>> THEN <<>>
    ELSE InsertSorted(SortedReverse(SubSeq(ids, 1, Len(ids) - 1), field),
                      ids[Len(ids)], field)

\* [:5]
FirstN(seq, n) == SubSeq(seq, 1, IF Len(seq) < n THEN Len(seq) ELSE n)

\* lines 639-640: the documents of the given ids
CleanJobs(ids) == [k \in DOMAIN ids |-> [id |-> ids[k]] @@ jobs[ids[k]]]

\* GET /stats
get_stats ==
    LET job_ids == StoredOrder(DOMAIN jobs)
        app_ids == StoredOrder(DOMAIN applications)
    IN  Read("get_stats", <<>>,
             [overview |->
                 [total_companies |-> Cardinality(DOMAIN companies),
                  total_jobs |-> Len(job_ids),
                  active_jobs |-> Cardinality({j \in DOMAIN jobs : jobs[j].is_active}),
                  total_applications |-> Len(app_ids),
                  total_bookmarks |-> Len(bookmarks)],
              jobs_by_category |-> Breakdown(jobs, job_ids, "category"),
              jobs_by_type |-> Breakdown(jobs, job_ids, "job_type"),
              applications_by_status |-> Breakdown(applications, app_ids, "status"),
              most_viewed_jobs |-> CleanJobs(FirstN(SortedReverse(job_ids, "views"), TopN)),
              most_applied_jobs |->
                 CleanJobs(FirstN(SortedReverse(job_ids, "applications_count"), TopN))])

StatsJobIds == {2, NumSeedJobs + 1}
StatsJobCreates ==
    [title : NewTitles, company_id : {1}, category : {"Technology", "Finance"},
     job_type : {"Full-Time"}, salary_min : {None}, salary_max : {None}]
StatsApplicationCreates ==
    [applicant_name : {"Ann"}, applicant_email : Emails, google_access_token : {None}]
StatsStatuses == {"Pending", "Rejected"}

NextStats ==
    \/ Idle /\ \E data \in StatsJobCreates : create_job(data)
    \/ Idle /\ \E job_id \in StatsJobIds : get_job(job_id)
    \/ Idle /\ \E job_id \in StatsJobIds : delete_job(job_id)
    \/ Idle /\ \E job_id \in StatsJobIds, data \in StatsApplicationCreates :
                  apply_for_job(job_id, data)
    \/ Idle /\ \E id \in ReqAppIds, status \in StatsStatuses :
                  update_application_status(id, status)
    \/ Idle /\ get_stats
    \/ deliver

SpecStats == Init /\ [][NextStats]_vars

(***************************************************************************)
(* Reading applications: by job, by id, by student.                        *)
(***************************************************************************)
\* [_clean(a) for a in col_applications.find(q)]: the documents in stored order
CleanApplications(ids) ==
    [k \in DOMAIN ids |-> [id |-> ids[k]] @@ applications[ids[k]]]

\* GET /jobs/{job_id}/applications
get_job_applications(job_id, status) ==
    LET req == [job_id |-> job_id, status |-> status] IN
    IF IsNone(FindOne(jobs, job_id))
    THEN Fail("get_job_applications", 404, req)
    ELSE LET q == {a \in DOMAIN applications :
                      /\ applications[a].job_id = job_id
                      /\ IsNone(status) \/ applications[a].status = The(status)}
             apps == CleanApplications(StoredOrder(q))
         IN  Read("get_job_applications", req, [applications |-> apps, total |-> Len(apps)])

\* GET /applications/{application_id}
get_application(application_id) ==
    LET req == [application_id |-> application_id]
        a == FindOne(applications, application_id)
    IN  IF IsNone(a)
        THEN Fail("get_application", 404, req)
        ELSE Read("get_application", req, [id |-> application_id] @@ The(a))

\* GET /students/{email}/applications
get_student_applications(email) ==
    LET q == {a \in DOMAIN applications : applications[a].applicant_email = email}
        apps == CleanApplications(StoredOrder(q))
    IN  Read("get_student_applications", [email |-> email],
             [applications |-> apps, total |-> Len(apps),
              message |-> IF apps = <<>>
                          THEN Some("No applications found for this email")
                          ELSE None])

ReaderJobIds == {NoId, 1}
ReaderApplicationCreates ==
    [applicant_name : {"Ann"}, applicant_email : Emails, google_access_token : {None}]
ReaderBookmarkCreates == [student_email : {"a@x.com"}, job_id : ReaderJobIds]
ReaderStatuses == {None, Some("Pending"), Some("Rejected")}

NextReader ==
    \/ Idle /\ \E job_id \in ReaderJobIds, data \in ReaderApplicationCreates :
                  apply_for_job(job_id, data)
    \/ Idle /\ \E id \in ReqAppIds, status \in StatsStatuses :
                  update_application_status(id, status)
    \/ Idle /\ \E data \in ReaderBookmarkCreates : bookmark_job(data)
    \/ Idle /\ \E job_id \in ReaderJobIds : delete_job(job_id)
    \/ Idle /\ \E job_id \in ReaderJobIds, status \in ReaderStatuses :
                  get_job_applications(job_id, status)
    \/ Idle /\ \E id \in ReqAppIds : get_application(id)
    \/ Idle /\ \E email \in Emails : get_student_applications(email)
    \/ deliver

SpecReader == Init /\ [][NextReader]_vars

(***************************************************************************)
(* delete_job next to the requests that look a job up and then count on    *)
(* it, one step per store call.                                            *)
(***************************************************************************)
NextDelete ==
    \/ \E p \in Procs, job_id \in ConcJobIds : delete_job_call(p, job_id)
    \/ \E p \in Procs, job_id \in ConcJobIds, data \in ConcApplicationCreates :
            \E answer \in AnswersFor(data) : submit_find_job(p, job_id, data, answer)
    \/ \E p \in Procs : submit_duplicate_check(p)
    \/ \E p \in Procs : submit_find_company(p)
    \/ \E p \in Procs : submit_insert(p)
    \/ \E p \in Procs : submit_increment(p)
    \/ \E p \in Procs, job_id \in ConcJobIds : get_job_find(p, job_id)
    \/ \E p \in Procs : get_job_increment(p)
    \/ \E p \in Procs : get_job_enrich(p)
    \/ \E p \in Procs, data \in ConcJobCreates : create_job_find_company(p, data)
    \/ \E p \in Procs : create_job_insert(p)
    \/ \E p \in Procs : create_job_increment(p)
    \/ \E p \in Procs : create_job_enrich(p)

SpecDelete == Init /\ [][NextDelete]_vars

(***************************************************************************)
(* Properties.                                                             *)
(***************************************************************************)
ApplyOps == {"apply_for_job", "apply_for_job_compat"}

\* the application documents that reference job j
ApplicationsOfJob(j) == {a \in DOMAIN applications : applications[a].job_id = j}

\* the step answers an application request that reached _submit_application
\* (422 is the validation layer turning the request away before the handler)
ApplyStep == resp'.op \in ApplyOps /\ resp'.code # 422

\* C1: with requests served one at a time, in every state every existing
\* job's applications_count equals the number of Application documents
\* whose job_id is that job's id.
C1_CountEqualsApplications ==
    \A j \in DOMAIN jobs :
        jobs[j].applications_count = Cardinality(ApplicationsOfJob(j))

\* C1 witness: a job with two applications on record and counted, after a
\* status update
C1_Witness ==
    /\ resp.op = "update_application_status"
    /\ resp.code = 200
    /\ \E j \in DOMAIN jobs :
          /\ jobs[j].applications_count = 2
          /\ Cardinality(ApplicationsOfJob(j)) = 2

\* C2 as stated: served one at a time, an application to an active job for a
\* (job id, email) pair without an application succeeds, and an application
\* for a pair that has one fails with 409.
C2_Original ==
    [][ApplyStep =>
          LET job_id == resp'.req.job_id
              email == resp'.req.data.applicant_email
          IN  /\ (job_id \in DOMAIN jobs /\ jobs[job_id].is_active
                    /\ AppsOf(job_id, email) = {}) => resp'.code = 201
              /\ AppsOf(job_id, email) # {} => resp'.code = 409]_vars

\* a verification that does not raise 401 or 403
VerificationPasses(data, answer) ==
    \/ IsNone(data.google_access_token)
    \/ The(data.google_access_token) = ""
    \/ answer.raised
    \/ answer.status = 200 /\ ~answer.parses
    \/ answer.status = 200 /\ answer.email = Some(data.applicant_email)

\* C2 amended: served one at a time, an application to an active job for a
\* pair without an application succeeds when its identity verification does
\* not fail; an application for a pair that has one never succeeds, and
\* fails with 409 when the job exists, is active and the verification does
\* not fail; so there is at most one Application per (job_id, email) pair.
C2_OncePerPair ==
    [][ApplyStep =>
          LET job_id == resp'.req.job_id
              data == resp'.req.data
              email == data.applicant_email
              open == job_id \in DOMAIN jobs /\ jobs[job_id].is_active
              passes == VerificationPasses(data, resp'.req.answer)
          IN  /\ (open /\ passes /\ AppsOf(job_id, email) = {}) => resp'.code = 201
              /\ AppsOf(job_id, email) # {} => resp'.code # 201
              /\ (open /\ passes /\ AppsOf(job_id, email) # {}) => resp'.code = 409
              /\ \A j \in ReqJobIds, e \in Emails :
                    Cardinality({a \in DOMAIN applications' :
                        /\ applications'[a].job_id = j
                        /\ applications'[a].applicant_email = e}) <= 1]_vars

\* C2 witness: the second application for a pair is answered 409
C2_Witness ==
    /\ resp.op \in ApplyOps
    /\ resp.code = 409
    /\ Cardinality(AppsOf(resp.req.job_id, resp.req.data.applicant_email)) = 1

\* C4: an application to an existing job whose is_active is false is
\* answered 400, with or without a token, whatever the verifier answers and
\* whether or not the pair already has an application.
C4_InactiveIs400 ==
    [][ApplyStep =>
          LET job_id == resp'.req.job_id IN
          (job_id \in DOMAIN jobs /\ ~jobs[job_id].is_active) => resp'.code = 400]_vars

\* C4 witness: 400 for a request with a token the verifier rejects, for a
\* pair that already has an application
C4_Witness ==
    /\ resp.op \in ApplyOps
    /\ resp.code = 400
    /\ CallsVerifier(resp.req.data)
    /\ resp.req.answer.status = 401
    /\ AppsOf(resp.req.job_id, resp.req.data.applicant_email) # {}

\* C5: for an application with a token to an active job, a non-success
\* answer of the verifier gives 401 and a successful answer whose email is
\* not the applicant's gives 403, also when the pair already has an
\* application.
C5_VerificationBeforeDuplicate ==
    [][ApplyStep =>
          LET job_id == resp'.req.job_id
              data == resp'.req.data
              answer == resp'.req.answer
          IN  (/\ job_id \in DOMAIN jobs
               /\ jobs[job_id].is_active
               /\ CallsVerifier(data)
               /\ ~answer.raised)
              => /\ answer.status # 200 => resp'.code = 401
                 /\ (/\ answer.status = 200
                     /\ answer.parses
                     /\ answer.email # Some(data.applicant_email)) => resp'.code = 403]_vars

\* C5 witness: 403 for a pair that already has an application
C5_Witness ==
    /\ resp.op \in ApplyOps
    /\ resp.code = 403
    /\ resp.req.answer.email # None
    /\ AppsOf(resp.req.job_id, resp.req.data.applicant_email) # {}

\* the verifier was called and the call failed without an explicit rejection
VerificationSkipped(data, answer) ==
    /\ CallsVerifier(data)
    /\ \/ answer.raised
       \/ answer.status = 200 /\ ~answer.parses

\* what _submit_application answers to a request without a token
TokenlessCode(job_id, email) ==
    IF job_id \notin DOMAIN jobs THEN 404
    ELSE IF ~jobs[job_id].is_active THEN 400
    ELSE IF AppsOf(job_id, email) # {} THEN 409
    ELSE 201

\* the step has the outcome and the effect of the same request without a
\* token, the document stored and returned having the given token field
SameAsTokenless(token) ==
    LET job_id == resp'.req.job_id
        data == resp'.req.data
        code == TokenlessCode(job_id, data.applicant_email)
        id == Cardinality(DOMAIN applications) + 1
        doc == [applicant_name |-> data.applicant_name,
                applicant_email |-> data.applicant_email,
                google_access_token |-> token,
                job_id |-> job_id,
                job_title |-> jobs[job_id].title,
                company_name |-> companies[jobs[job_id].company_id].name,
                status |-> "Pending"]
    IN  /\ resp'.code = code
        /\ IF code = 201
           THEN /\ applications' = applications @@ (id :> doc)
                /\ jobs' = [jobs EXCEPT ![job_id].applications_count = @ + 1]
                /\ resp'.body = [id |-> id, doc |-> doc]
                /\ UNCHANGED <<companies, bookmarks>>
           ELSE /\ resp'.body = NoBody
                /\ UNCHANGED <<companies, jobs, applications, bookmarks>>

\* C6 as stated: when the verification call fails without an explicit
\* rejection, the application has exactly the outcome and the store exactly
\* the effect of the same request without a token.
C6_Original ==
    [][(ApplyStep /\ VerificationSkipped(resp'.req.data, resp'.req.answer))
          => SameAsTokenless(None)]_vars

\* C6, what the code does: when the verification call fails without an
\* explicit rejection, the application has the outcome and the store the
\* effect of the same request without a token, except that the Application
\* stored and returned holds the request's token in google_access_token.
C6_SkippedVerification ==
    [][(ApplyStep /\ VerificationSkipped(resp'.req.data, resp'.req.answer))
          => SameAsTokenless(resp'.req.data.google_access_token)]_vars

\* C6 witness: an application accepted although the tokeninfo call raised
C6_Witness ==
    /\ resp.op \in ApplyOps
    /\ resp.code = 201
    /\ CallsVerifier(resp.req.data)
    /\ resp.req.answer.raised

\* C7: an application answered 404, 400, 401, 403 or 409 leaves the four
\* collections as they were.
C7_FailedApplyWritesNothing ==
    [][(ApplyStep /\ resp'.code \in {404, 400, 401, 403, 409})
          => UNCHANGED <<companies, jobs, applications, bookmarks>>]_vars

\* C7 witness: an application turned away by the verifier from a store
\* that holds applications and bookmarks
C7_Witness ==
    /\ resp.op \in ApplyOps
    /\ resp.code = 401
    /\ DOMAIN applications # {}
    /\ bookmarks # <<>>

\* C8: served one at a time, a get_job on an existing job raises its stored
\* views by one and returns the stored value; every other step leaves the
\* views of every job as they were, and a created job starts at 0.
C8_ViewsByOne ==
    [][/\ \A j \in DOMAIN jobs \cap DOMAIN jobs' :
            IF resp'.op = "get_job" /\ resp'.req.job_id = j
            THEN /\ resp'.code = 200
                 /\ jobs'[j].views = jobs[j].views + 1
                 /\ resp'.body.job.views = jobs'[j].views
            ELSE jobs'[j].views = jobs[j].views
       /\ \A j \in DOMAIN jobs' \ DOMAIN jobs : jobs'[j].views = 0]_vars

\* C8 witness: the third fetch in a row of a created job returns views 3
C8_Witness ==
    /\ resp.op = "get_job"
    /\ resp.code = 200
    /\ resp.req.job_id = NumSeedJobs + 1
    /\ resp.body.job.views = 3

\* worker p has answered an application for (job_id, email) with 201
Applied(p, job_id, email) ==
    /\ proc[p].pc = "idle"
    /\ proc[p].op = "apply_for_job"
    /\ proc[p].code = 201
    /\ proc[p].job_id = job_id
    /\ proc[p].data.applicant_email = email

\* the workers between the insert of line 501 and the increment of line 502
\* of an application to job j
BetweenInsertAndIncrement(j) ==
    {p \in Procs : proc[p].pc = "increment" /\ proc[p].job_id = j}

\* C3: two interleaved applications for the same (job id, email) pair can
\* both be answered 201; whenever they are, the pair has two Application
\* documents, each counted in the job's applications_count.
C3_BothAcceptedMeansTwoDocuments ==
    \A p, q \in Procs, j \in ConcJobIds, e \in Emails :
        (p # q /\ Applied(p, j, e) /\ Applied(q, j, e))
        => /\ proc[p].body.id # proc[q].body.id
           /\ {proc[p].body.id, proc[q].body.id} \subseteq AppsOf(j, e)
           /\ j \in DOMAIN jobs => jobs[j].applications_count >= 2

\* C3 witness: both workers passed the duplicate check before either
\* insert, both answered 201, the pair has two documents and the count is 2
C3_Witness ==
    \E p, q \in Procs, e \in Emails :
        /\ p # q
        /\ Applied(p, 1, e)
        /\ Applied(q, 1, e)
        /\ Cardinality(AppsOf(1, e)) = 2
        /\ jobs[1].applications_count = 2

\* C9: the counters lose no increment under interleaving: for an existing
\* job, views is the number of get_job requests on it that have returned
\* plus those past their increment, and applications_count is the number of
\* applications to it that have been answered 201; so with every request
\* completed each counter has grown by the number of successful requests.
C9_NoLostIncrement ==
    \A j \in DOMAIN jobs \cap ReqJobIds :
        /\ jobs[j].views = tally.viewed[j]
              + Cardinality({p \in Procs : proc[p].pc = "enrich" /\ proc[p].job_id = j})
        /\ jobs[j].applications_count = tally.applied[j]

\* C9 witness: two get_job requests that both read views 0 have returned,
\* and the stored views is 2
C9_Witness ==
    /\ \A p \in Procs :
          /\ proc[p].pc = "idle"
          /\ proc[p].op = "get_job"
          /\ proc[p].job_id = 1
          /\ proc[p].code = 200
          /\ proc[p].body.job.views = 1
    /\ jobs[1].views = 2

\* C10: in every state of the interleaved handlers a job's
\* applications_count is at most the number of Application documents that
\* reference it, and falls short of it by exactly the number of requests
\* that are between insert and increment or have died there: no later step
\* makes up for a request that died.
C10_CountNeverOvercounts ==
    \A j \in DOMAIN jobs \cap ReqJobIds :
        /\ jobs[j].applications_count <= Cardinality(ApplicationsOfJob(j))
        /\ jobs[j].applications_count + Cardinality(BetweenInsertAndIncrement(j))
              + tally.failed[j] = Cardinality(ApplicationsOfJob(j))

\* C10 witness: a request died after its insert, a later application to the
\* job was accepted, no request is in flight, and the count is one short
C10_Witness ==
    /\ \A p \in Procs : proc[p].pc = "idle"
    /\ tally.failed[1] = 1
    /\ tally.applied[1] >= 1
    /\ \E p \in Procs : proc[p].op = "apply_for_job" /\ proc[p].code = 201
                          /\ proc[p].body.id = Cardinality(DOMAIN applications)
    /\ jobs[1].applications_count = Cardinality(ApplicationsOfJob(1)) - 1

\* C14: create_job for a company id that does not exist, and get_job,
\* update_job and delete_job for a job id that does not exist, are answered
\* 404; a request of these four answered 404 leaves the four collections
\* as they were (no job inserted, no counter raised).
C14_NotFoundWritesNothing ==
    [][/\ (resp'.op = "create_job" /\ resp'.req.data.company_id \notin DOMAIN companies)
            => resp'.code = 404
       /\ (resp'.op \in {"get_job", "update_job", "delete_job"}
              /\ resp'.req.job_id \notin DOMAIN jobs)
            => resp'.code = 404
       /\ (resp'.op \in {"create_job", "get_job", "update_job", "delete_job"}
              /\ resp'.code = 404)
            => UNCHANGED <<companies, jobs, applications, bookmarks, jobSeq>>]_vars

\* C14 witness: create_job for a missing company answered 404 after a job
\* was created and deleted, the store holding no job the request made
C14_Witness ==
    /\ resp.op = "create_job"
    /\ resp.code = 404
    /\ resp.req.data.company_id \notin DOMAIN companies
    /\ jobSeq = NumSeedJobs + 1
    /\ DOMAIN jobs = DOMAIN SeedJobs

\* the fields of an Application that are fixed when it is submitted
SubmittedFields ==
    {"job_id", "job_title", "company_name", "applicant_name", "applicant_email"}

\* C15: a new Application holds the job's title and the company's name as
\* they are when it is submitted, and no step (update_job, delete_job,
\* update_application_status or any other) removes an Application or changes
\* its job_id, job_title, company_name or applicant fields.
C15_SubmittedFieldsFrozen ==
    [][/\ \A a \in DOMAIN applications :
            /\ a \in DOMAIN applications'
            /\ \A f \in SubmittedFields : applications'[a][f] = applications[a][f]
       /\ \A a \in DOMAIN applications' \ DOMAIN applications :
            LET job == jobs[applications'[a].job_id] IN
            /\ applications'[a].job_title = job.title
            /\ applications'[a].company_name = companies[job.company_id].name]_vars

\* C15 witness: update_job has changed the title of a job that has an
\* application, and the application still holds the title it was submitted
\* under
C15_Witness ==
    /\ resp.op = "update_job"
    /\ resp.code = 200
    /\ \E a \in DOMAIN applications :
          /\ applications[a].job_id = resp.req.job_id
          /\ jobs[resp.req.job_id].title = "Senior Engineer"
          /\ applications[a].job_title # "Senior Engineer"

\* the ApplicationCreate that corresponds field for field to a request of
\* the compat entry point
Renamed(data) ==
    [applicant_name |-> data.full_name,
     applicant_email |-> data.email,
     google_access_token |-> data.google_access_token]

\* the step has the outcome and the effect on the store that apply_for_job
\* has for (job_id, data) when the verifier answers as given
SameAsApplyForJob(job_id, data, answer) ==
    LET code == SubmitCode(job_id, data, answer)
        id == Cardinality(DOMAIN applications) + 1
    IN  IF code # 0
        THEN /\ resp'.code = code
             /\ UNCHANGED <<companies, jobs, applications, bookmarks>>
        ELSE LET job == jobs[job_id]
                 app_doc == AppDoc(job_id, data, job, FindOne(companies, job.company_id))
             IN  /\ resp'.code = 201
                 /\ resp'.body = [id |-> id, doc |-> app_doc]
                 /\ applications' = InsertOne(applications, id, app_doc)
                 /\ jobs' = IncOne(jobs, job_id, "applications_count")
                 /\ UNCHANGED <<companies, bookmarks>>

\* the answer to a request of the compat entry point is the answer of
\* apply_for_job to req, with the verifier answering the same where the
\* compat entry point called it
CompatAnswersAs(data, req) ==
    apply_for_job_compat(data)
    => \E answer \in AnswersFor(req) :
          /\ resp'.code # 422 /\ CallsVerifier(req) => answer = resp'.req.answer
          /\ SameAsApplyForJob(data.job_id, req, answer)

\* C17 as stated, for the requests that request validation lets through to
\* the handler: from the same store, apply_for_job_compat with (job_id,
\* full_name, email, ...) has the outcome and leaves the store that
\* apply_for_job has with the corresponding (applicant_name,
\* applicant_email, ...) on the same job id.
C17_Original ==
    [][\A data \in ApplicationCreateCompats :
          ValidEmail(data.email) => CompatAnswersAs(data, Renamed(data))]_vars

\* C17, what the code does: apply_for_job_compat answers 422 and writes
\* nothing when email is not an address, and otherwise has the outcome and
\* leaves the store that apply_for_job has with the corresponding fields
\* and the email with its domain in lower case.
C17_EquivalentAfterEmailStr ==
    [][\A data \in ApplicationCreateCompats :
          IF ValidEmail(data.email)
          THEN CompatAnswersAs(data, MapCompat(data))
          ELSE apply_for_job_compat(data)
               => /\ resp'.code = 422
                  /\ UNCHANGED <<companies, jobs, applications, bookmarks>>]_vars

\* C17 witness: the compat entry point has stored an application
C17_Witness ==
    /\ resp.op = "apply_for_job_compat"
    /\ resp.code = 201
    /\ resp.body.id \in DOMAIN applications

\* the bookmark documents of bms for the pair (email, job_id)
PairBookmarks(bms, email, job_id) ==
    {i \in DOMAIN bms : bms[i].student_email = email /\ bms[i].job_id = job_id}

\* C11 as stated: in every reachable state there is at most one Bookmark
\* record per (student email, job id) pair.
C11_Original ==
    \A email \in Students, job_id \in BookmarkedJobIds :
        Cardinality(PairBookmarks(bookmarks, email, job_id)) <= 1

\* C11, what the code does: the lookup of line 580 writes nothing; a
\* bookmark_job that finds a bookmark for its pair there is answered 409,
\* and one that finds none goes on to the insert of line 582, whatever has
\* been inserted for the pair by then.
C11_OnePerLookup ==
    [][\A p \in Procs :
          (proc[p].pc = "find_bookmark" /\ proc'[p].pc # "find_bookmark")
          => LET data == proc[p].data
                 taken == PairBookmarks(bookmarks, data.student_email, data.job_id) # {}
             IN  /\ taken => proc'[p].code = 409 /\ proc'[p].pc = "idle"
                 /\ ~taken => proc'[p].pc = "insert_bookmark"
                 /\ bookmarks' = bookmarks]_vars

\* C11 witness: two bookmark_job requests for one pair have both been
\* answered 201 and the pair has two Bookmark records
C11_Witness ==
    /\ \A p \in Procs :
          /\ proc[p].pc = "idle"
          /\ proc[p].op = "bookmark_job"
          /\ proc[p].code = 201
          /\ proc[p].data = [student_email |-> "a@x.com", job_id |-> 1]
    /\ Cardinality(PairBookmarks(bookmarks, "a@x.com", 1)) = 2

\* the ids of the jobs in the body of a get_bookmarks response
ListedIds(body) == {body.bookmarks[i].id : i \in DOMAIN body.bookmarks}

\* C12 as stated: remove_bookmark for a pair without a bookmark is answered
\* 404 and changes nothing; after a remove_bookmark answered 200 no bookmark
\* for the pair remains, so the job is not in the student's bookmark list
\* and a bookmark_job for the pair is not turned away as a duplicate.
C12_Original ==
    [][(Idle /\ resp'.op = "remove_bookmark")
          => LET email == resp'.req.data.student_email
                 job_id == resp'.req.data.job_id
             IN  IF PairBookmarks(bookmarks, email, job_id) = {}
                 THEN /\ resp'.code = 404
                      /\ UNCHANGED <<companies, jobs, applications, bookmarks>>
                 ELSE /\ resp'.code = 200
                      /\ PairBookmarks(bookmarks', email, job_id) = {}
                      /\ \A i \in DOMAIN BookmarkedJobs(bookmarks', email) :
                            BookmarkedJobs(bookmarks', email)[i].id # job_id]_vars

\* C12 witness: a bookmark has been removed and none is left for its pair
C12_Witness ==
    /\ resp.op = "remove_bookmark"
    /\ resp.code = 200
    /\ PairBookmarks(bookmarks, resp.req.data.student_email, resp.req.data.job_id) = {}

\* C13 as stated: get_bookmarks returns exactly the jobs the student has
\* bookmarked that still exist, each once, with total equal to their
\* number; a bookmark whose job has been deleted adds nothing.
C13_Original ==
    [][(Idle /\ resp'.op = "get_bookmarks")
          => LET email == resp'.req.email
                 wanted == {bookmarks[i].job_id :
                              i \in {k \in DOMAIN bookmarks :
                                        bookmarks[k].student_email = email}}
                           \cap DOMAIN jobs
             IN  /\ resp'.code = 200
                 /\ ListedIds(resp'.body) = wanted
                 /\ Len(resp'.body.bookmarks) = Cardinality(wanted)
                 /\ resp'.body.total = Cardinality(wanted)
                 /\ \A i \in DOMAIN resp'.body.bookmarks :
                       LET b == resp'.body.bookmarks[i] IN
                       /\ b.job = jobs[b.id]
                       /\ b.company = FindOne(companies, b.job.company_id)]_vars

\* C13 witness: a student has bookmarked two jobs, one of them has been
\* deleted, and the listing holds the other alone
C13_Witness ==
    /\ resp.op = "get_bookmarks"
    /\ resp.body.total = 1
    /\ ListedIds(resp.body) = {2}
    /\ PairBookmarks(bookmarks, resp.req.email, 1) # {}
    /\ 1 \notin DOMAIN jobs

\* worker p takes an update_application_status request in this step
TakesStatusUpdate(p) ==
    /\ started' = started + 1
    /\ proc[p].pc = "idle"
    /\ proc'[p] # proc[p]
    /\ proc'[p].op = "update_application_status"

\* C16: every Application is created with status Pending; an
\* update_application_status for an application that does not exist is
\* answered 404 and writes nothing; for one that exists, whatever its
\* status is, the status becomes the requested one (so every status is
\* reachable from every status) and no other application changes.
C16_AnyStatusFromAny ==
    [][/\ \A a \in DOMAIN applications' \ DOMAIN applications :
            applications'[a].status = "Pending"
       /\ \A p \in Procs :
            /\ (TakesStatusUpdate(p)
                  /\ proc'[p].data.application_id \notin DOMAIN applications)
                => /\ proc'[p].pc = "idle"
                   /\ proc'[p].code = 404
                   /\ applications' = applications
            /\ (TakesStatusUpdate(p)
                  /\ proc'[p].data.application_id \in DOMAIN applications)
                => proc'[p].pc = "set_status"
            /\ (proc[p].pc = "set_status" /\ proc'[p].pc # "set_status")
                => LET id == proc[p].data.application_id IN
                   /\ applications'[id].status = proc[p].data.status
                   /\ \A a \in DOMAIN applications \ {id} :
                         applications'[a] = applications[a]]_vars

\* C16 witness: of the three requests of the run one is the application,
\* one set its status to Rejected and was answered with Rejected, and the
\* last one has set it from Rejected back to Pending
C16_Witness ==
    /\ started = 3
    /\ DOMAIN applications = {1}
    /\ \E p, q \in Procs :
          /\ proc[p].pc = "idle" /\ proc[q].pc = "idle"
          /\ proc[p].op = "update_application_status"
          /\ proc[q].op = "update_application_status"
          /\ proc[p].code = 200 /\ proc[q].code = 200
          /\ proc[p].data = [application_id |-> 1, status |-> "Rejected"]
          /\ proc[q].data = [application_id |-> 1, status |-> "Pending"]
          /\ proc[p].body.status = "Rejected"
          /\ proc[q].body.status = "Pending"
    /\ applications[1].status = "Pending"

\* the least number of pages of page_size listings that hold total listings
CeilDiv(total, page_size) ==
    CHOOSE c \in 0 .. total :
        /\ c * page_size >= total
        /\ \A d \in 0 .. total : d * page_size >= total => c <= d

\* job id can stand at position pos of the ids sorted in the given order:
\* fewer than pos of them have to come before it, and at least pos of them
\* do not have to come after it
AtPosition(id, pos, ids, order) ==
    /\ id \in ids
    /\ Cardinality({j \in ids : Precedes(j, id, order)}) < pos
    /\ Cardinality({j \in ids : ~Precedes(id, j, order)}) >= pos

\* C18: a list_jobs query with T matching listings, page p and page size s,
\* served with no other request in progress, reports total T, returns
\* min(s, max(0, T - (p-1)*s)) listings, namely positions (p-1)*s+1 .. p*s
\* of the sorted match list (none, without error, beyond the last page),
\* and reports total_pages = max(1, ceil(T / s)).
C18_Pagination ==
    [][(Idle /\ resp'.op = "list_jobs")
          => LET req == resp'.req
                 T == Cardinality(FindIds(req.params))
                 p == req.page
                 size == req.page_size
                 listed == resp'.body.jobs
                 rest == IF T - (p - 1) * size > 0 THEN T - (p - 1) * size ELSE 0
             IN  /\ resp'.code = 200
                 /\ resp'.body.pagination.total = T
                 /\ Len(listed) = IF size < rest THEN size ELSE rest
                 /\ \A k \in DOMAIN listed : AtPosition(listed[k].id, (p - 1) * size + k,
                                                        FindIds(req.params),
                                                        SortOrder(req.sort_by))
                 /\ \A k, l \in DOMAIN listed : k # l => listed[k].id # listed[l].id
                 /\ resp'.body.pagination.total_pages
                       = IF CeilDiv(T, size) > 1 THEN CeilDiv(T, size) ELSE 1]_vars

\* C18 witness: five matching listings and page size 2: page 3 holds the
\* fifth listing alone and total_pages is 3
C18_Witness ==
    /\ resp.op = "list_jobs"
    /\ resp.body.pagination.total = 5
    /\ resp.req.page_size = 2
    /\ resp.req.page = 3
    /\ Len(resp.body.jobs) = 1
    /\ resp.body.pagination.total_pages = 3

\* C19: a list_jobs query with salary_min = X counts and returns only jobs
\* whose salary_max is defined and >= X (X itself included; the job's own
\* salary_min plays no part) and which pass every other supplied filter
\* and, by default, are active.
C19_SalaryFloor ==
    [][(Idle /\ resp'.op = "list_jobs" /\ ~IsNone(resp'.req.params.salary_min))
          => LET params == resp'.req.params
                 X == The(params.salary_min)
                 wanted ==
                    {j \in DOMAIN jobs :
                        /\ jobs[j].salary_max # None
                        /\ The(jobs[j].salary_max) >= X
                        /\ params.active_only => jobs[j].is_active
                        /\ params.category # None
                             => RegexSearch(The(params.category), jobs[j].category)
                        /\ params.job_type # None
                             => RegexSearch(The(params.job_type), jobs[j].job_type)}
             IN  /\ resp'.body.pagination.total = Cardinality(wanted)
                 /\ \A k \in DOMAIN resp'.body.jobs : resp'.body.jobs[k].id \in wanted]_vars

\* C19 witness: with salary_min = 25000 and no other filter the listing
\* counts three jobs and shows the job whose salary_max is exactly 25000
\* and the job whose salary_min is 20000, while a job without salary_max
\* and a job with salary_max 18000 are in the store
C19_Witness ==
    /\ resp.op = "list_jobs"
    /\ resp.req.params = [active_only |-> TRUE, category |-> None, job_type |-> None,
                          salary_min |-> Some(25000)]
    /\ resp.body.pagination.total = 3
    /\ {resp.body.jobs[k].id : k \in DOMAIN resp.body.jobs} = {1, 3}
    /\ jobs[1].salary_max = Some(25000)
    /\ jobs[3].salary_min = Some(20000)
    /\ jobs[4].salary_max = Some(18000) /\ jobs[4].is_active
    /\ \E j \in DOMAIN jobs : jobs[j].salary_max = None /\ jobs[j].is_active

\* the sum of the values of a breakdown
RECURSIVE SumOf(_)
SumOf(counts) ==
    IF DOMAIN counts = {} THEN 0
    ELSE LET v == CHOOSE w \in DOMAIN counts : TRUE
         IN  counts[v] + SumOf([w \in DOMAIN counts \ {v} |-> counts[w]])

\* top is a list of min(5, number of jobs) jobs in non-increasing order of
\* the counter, no job left out has a larger counter than a job in the
\* list, and jobs with equal counters are in stored order, in the list and
\* across its end
TopByCounter(top, field) ==
    LET listed == {top[k].id : k \in DOMAIN top} IN
    /\ Len(top) = IF Cardinality(DOMAIN jobs) < 5 THEN Cardinality(DOMAIN jobs) ELSE 5
    /\ Cardinality(listed) = Len(top)
    /\ \A k \in DOMAIN top : top[k] = [id |-> top[k].id] @@ jobs[top[k].id]
    /\ \A k, l \in DOMAIN top :
          k < l => /\ top[k][field] >= top[l][field]
                   /\ top[k][field] = top[l][field] => top[k].id < top[l].id
    /\ \A j \in DOMAIN jobs \ listed, i \in listed :
          /\ jobs[j][field] <= jobs[i][field]
          /\ jobs[j][field] = jobs[i][field] => i < j

\* C20: get_stats returns, for views and for applications_count, the top
\* five jobs as TopByCounter says, and the values of jobs_by_category and
\* of jobs_by_type each sum to total_jobs and those of
\* applications_by_status to total_applications, which are the numbers of
\* Job and Application records.
C20_Stats ==
    [][(Idle /\ resp'.op = "get_stats")
          => LET body == resp'.body IN
             /\ resp'.code = 200
             /\ TopByCounter(body.most_viewed_jobs, "views")
             /\ TopByCounter(body.most_applied_jobs, "applications_count")
             /\ body.overview.total_jobs = Cardinality(DOMAIN jobs)
             /\ body.overview.total_applications = Cardinality(DOMAIN applications)
             /\ SumOf(body.jobs_by_category) = body.overview.total_jobs
             /\ SumOf(body.jobs_by_type) = body.overview.total_jobs
             /\ SumOf(body.applications_by_status) = body.overview.total_applications]_vars

\* C20 witness: six jobs, one of the created ones viewed: it heads
\* most_viewed_jobs ahead of the seeded jobs in stored order, and the other
\* created job, tied with them at 0 views, is the one left out
C20_Witness ==
    /\ resp.op = "get_stats"
    /\ resp.body.overview.total_jobs = 6
    /\ [k \in 1 .. 5 |-> resp.body.most_viewed_jobs[k].id] = <<5, 1, 2, 3, 4>>
    /\ jobs[6].views = 0
    /\ DOMAIN resp.body.jobs_by_category = {"Technology", "Finance", "Design"}

\* every job's company_id is the id of a Company record
JobsHaveCompany == \A j \in DOMAIN jobs : jobs[j].company_id \in DOMAIN companies

\* C21: in every reachable state every job's company_id is the id of a
\* Company record, and no step removes a company or changes a job's
\* company_id; so every response that carries an enriched job (create_job,
\* get_job, update_job) carries a company, and a new Application holds the
\* name of the job's company, never the fallback "Unknown".
C21_JobsHaveCompany ==
    /\ []JobsHaveCompany
    /\ [][/\ DOMAIN companies \subseteq DOMAIN companies'
          /\ \A j \in DOMAIN jobs \cap DOMAIN jobs' :
                jobs'[j].company_id = jobs[j].company_id
          /\ (resp'.op \in {"create_job", "get_job", "update_job"}
                 /\ resp'.code \in {200, 201})
               => /\ ~IsNone(resp'.body.company)
                  /\ resp'.body.company = FindOne(companies', resp'.body.job.company_id)
          /\ \A a \in DOMAIN applications' \ DOMAIN applications :
                LET job == jobs[applications'[a].job_id] IN
                /\ job.company_id \in DOMAIN companies
                /\ applications'[a].company_name = companies[job.company_id].name
                /\ applications'[a].company_name # "Unknown"]_vars

\* C21 witness: an application accepted for a job that was created for a
\* company that was itself created by a request; the application holds that
\* company's name
C21_Witness ==
    /\ resp.op = "apply_for_job"
    /\ resp.code = 201
    /\ resp.req.job_id = NumSeedJobs + 1
    /\ jobs[resp.req.job_id].company_id = NumSeedCompanies + 1
    /\ companies[NumSeedCompanies + 1].name = "Acme"
    /\ applications[resp.body.id].company_name = "Acme"

\* the Job records of the collection js that reference company c
JobsOfCompany(js, c) == {j \in DOMAIN js : js[j].company_id = c}

\* how far company c's total_jobs_posted is above the number of Job records
\* that reference it
Excess(cs, js, c) == cs[c].total_jobs_posted - Cardinality(JobsOfCompany(js, c))

\* C22: with requests served one at a time from the seeded store, where
\* every company's total_jobs_posted equals the number of its jobs: no
\* company is removed, no total_jobs_posted decreases, it is never below the
\* number of Job records referencing the company, and a step raises the
\* difference of the two by exactly the number of the company's jobs it
\* deletes (so the two are equal until one of its jobs is deleted, and
\* differ from then on); a new company starts with 0 and no job.
C22_TotalJobsPosted ==
    /\ \A c \in DOMAIN companies : Excess(companies, jobs, c) = 0
    /\ [](\A c \in DOMAIN companies : Excess(companies, jobs, c) >= 0)
    /\ [][/\ \A c \in DOMAIN companies :
                /\ c \in DOMAIN companies'
                /\ companies'[c].total_jobs_posted >= companies[c].total_jobs_posted
                /\ Excess(companies', jobs', c) =
                      Excess(companies, jobs, c)
                        + Cardinality(JobsOfCompany(jobs, c) \ DOMAIN jobs')
          /\ \A c \in DOMAIN companies' \ DOMAIN companies :
                /\ companies'[c].total_jobs_posted = 0
                /\ Excess(companies', jobs', c) = 0]_vars

\* C22 witness: a job has been created for company 1 and one of company 1's
\* jobs has just been deleted: its total_jobs_posted is 3 with two Job
\* records left, while company 2, none of whose jobs was deleted, has as many
\* jobs as its total_jobs_posted says
C22_Witness ==
    /\ resp.op = "delete_job"
    /\ resp.code = 200
    /\ companies[1].total_jobs_posted = 3
    /\ Cardinality(JobsOfCompany(jobs, 1)) = 2
    /\ NumSeedJobs + 1 \in JobsOfCompany(jobs, 1)
    /\ Excess(companies, jobs, 2) = 0

\* the ids of the applications a listing response holds
ListedApplicationIds(body) == {body.applications[k].id : k \in DOMAIN body.applications}

\* C23: no step removes an Application record; delete_job answered 200
\* removes the job and leaves companies, applications and bookmarks as they
\* were; get_application answers 200 with the record for every stored
\* application id and get_student_applications lists every stored
\* application of the email, whether or not the job still exists; and
\* get_job_applications for a job id that is not stored is answered 404.
C23_ApplicationsStay ==
    [][/\ DOMAIN applications \subseteq DOMAIN applications'
       /\ (resp'.op = "delete_job" /\ resp'.code = 200)
            => /\ resp'.req.job_id \in DOMAIN jobs
               /\ jobs' = DeleteOne(jobs, resp'.req.job_id)
               /\ UNCHANGED <<companies, applications, bookmarks>>
       /\ (resp'.op = "get_application"
              /\ resp'.req.application_id \in DOMAIN applications)
            => /\ resp'.code = 200
               /\ resp'.body = [id |-> resp'.req.application_id]
                                  @@ applications[resp'.req.application_id]
       /\ resp'.op = "get_student_applications"
            => /\ resp'.code = 200
               /\ ListedApplicationIds(resp'.body) =
                     {a \in DOMAIN applications :
                         applications[a].applicant_email = resp'.req.email}
               /\ resp'.body.total = Cardinality(ListedApplicationIds(resp'.body))
       /\ (resp'.op = "get_job_applications" /\ resp'.req.job_id \notin DOMAIN jobs)
            => resp'.code = 404]_vars

\* C23 witness: job 1 was bookmarked and applied for and then deleted; the
\* bookmark is still stored and the student's application list still shows
\* the application
C23_Witness ==
    /\ resp.op = "get_student_applications"
    /\ resp.body.total = 1
    /\ resp.body.applications[1].job_id = 1
    /\ 1 \notin DOMAIN jobs
    /\ BookmarksOf("a@x.com", 1) # {}
    /\ applications[resp.body.applications[1].id].applicant_email = resp.req.email

\* worker p's last response is the success of a delete_job for job_id
DeletedBy(p, job_id) ==
    /\ proc[p].pc = "idle"
    /\ proc[p].op = "delete_job"
    /\ proc[p].job_id = job_id
    /\ proc[p].code = 200

\* this step is worker p's delete_job request (a request that is answered
\* in one step, and that leaves a new response with p)
TakesDelete(p) ==
    /\ proc[p].pc = "idle"
    /\ proc'[p] # proc[p]
    /\ proc'[p].op = "delete_job"

\* this step is a request answered in one step exactly as the last request
\* of the worker that took it was
RepeatsRequest ==
    /\ started' = started + 1
    /\ proc' = proc

\* worker p is past the lookup of an apply_for_job or get_job request whose
\* job is no longer stored, and this step is its next one
StepsWithoutJob(p) ==
    /\ proc[p].op \in {"apply_for_job", "get_job"}
    /\ proc[p].pc # "idle"
    /\ proc[p].job_id \notin DOMAIN jobs
    /\ proc'[p] # proc[p]

\* C24: with the handlers interleaved, a delete_job request succeeds if the
\* job is stored when its delete_one runs and is answered 404 otherwise (a
\* request answered just as the worker's last one was is no second success
\* of a delete_job), the job is gone afterwards and a job id that is gone
\* never comes back, so no two workers hold a success for the same job id;
\* and an apply_for_job or
\* get_job request that found the job before it was deleted goes on as it
\* would have (it is answered 201, or 200, or 409 for an application that
\* exists already) and writes nothing to the jobs collection.
C24_DeleteOnce ==
    /\ [](\A p, q \in Procs, j \in ConcJobIds :
             (DeletedBy(p, j) /\ DeletedBy(q, j)) => p = q)
    /\ [][/\ \A j \in 1 .. jobSeq : j \notin DOMAIN jobs => j \notin DOMAIN jobs'
          /\ \A p \in Procs :
                TakesDelete(p)
                  => /\ proc'[p].code = IF proc'[p].job_id \in DOMAIN jobs THEN 200 ELSE 404
                     /\ jobs' = DeleteOne(jobs, proc'[p].job_id)
                     /\ proc'[p].pc = "idle"
          /\ RepeatsRequest
               => /\ jobs' = jobs
                  /\ \E p \in Procs :
                        /\ proc[p].pc = "idle" /\ proc[p].op # ""
                        /\ proc[p].op = "delete_job"
                             => /\ proc[p].code = 404
                                /\ proc[p].job_id \notin DOMAIN jobs
          /\ \A p \in Procs :
                StepsWithoutJob(p)
                  => /\ jobs' = jobs
                     /\ proc'[p].pc = "idle"
                          => \/ proc'[p].code = 201 /\ proc[p].pc = "increment"
                             \/ proc'[p].code = 200 /\ proc[p].pc = "enrich"
                             \/ /\ proc'[p].code = 409
                                /\ proc[p].pc = "duplicate_check"
                                /\ AppsOf(proc[p].job_id, proc[p].data.applicant_email) # {}]_vars

\* C24 witness: three requests for job 1.  Worker 1's second delete_job was
\* answered 404, so its first one succeeded; worker 2's apply_for_job, which
\* found the job before that, has been answered 201: the job is gone and
\* its application is stored
C24_Witness ==
    /\ started = 3
    /\ proc[1].pc = "idle" /\ proc[1].op = "delete_job"
    /\ proc[1].job_id = 1 /\ proc[1].code = 404
    /\ proc[2].pc = "idle" /\ proc[2].op = "apply_for_job"
    /\ proc[2].job_id = 1 /\ proc[2].code = 201
    /\ 1 \notin DOMAIN jobs
    /\ ApplicationsOfJob(1) = {proc[2].body.id}

====
